---- MODULE Spec2Model ----
(***************************************************************************)
(* Model of scraper.py: the retrying fetcher (WatchcountFetcher.fetch      *)
(* under tenacity's @retry), the rate semaphore with its deferred          *)
(* release, the page parser and the orchestrator (scrape) with its three   *)
(* paths: sample directory, batch (asyncio.gather) and crawl (sequential). *)
(*                                                                         *)
(* Time is a discrete quantity of seconds.  Every pending timer            *)
(* (asyncio.sleep, tenacity's wait, loop.call_later) holds the time that   *)
(* remains until it fires; Tick lets time pass up to the next pending      *)
(* timer, never past it.                                                   *)
(***************************************************************************)
EXTENDS Integers, Sequences, FiniteSets, TLC

\* ---------------------------------------------------------------- bounds
MaxPages == 2
MaxRows == 2
NumIds == 2
MaxRateLimited == 5
MaxBatchRateLimited == 3

\* ------------------------------------------------------ program constants
Permits == 3
Cooldown == 60
MaxAttempts == 5
DefaultRetryAfter == 60
WaitMultiplier == 1
WaitMin == 1
WaitMax == 60
TooManyRequests == 429

VARIABLES
    args,        \* argparse.Namespace: pages, mode, sample_dir (TRUE when given)
    opc,         \* position of scrape: "start", "running", "leaving" (in
                 \* __aexit__ with an exception), "returned", "raised"
    cur,         \* index of the page the sequential loops are at
    listings,    \* the dict of scrape, in insertion order
    ret,         \* what scrape returned to its caller: None, or <<list>>
    session,     \* fetcher.session: "unopened", "open", "closed"
    available,   \* rate_semaphore._value
    timers,      \* pending call_later(60, release) timers, oldest first
    calls,       \* per page, the state of its fetch(url) call
    seen,        \* history: per id, its last title in the pages merged, and if it recurred
    merged,      \* history: the indices of the pages merged into listings
    limited,     \* history: number of 429 responses the server has given
    fired,       \* history: parity of the number of release() calls made
    main         \* main: the exception scrape raised, what was reported and
                 \* written, and the exit status of the process

vars == <<args, opc, cur, listings, ret, session, available, timers, calls,
          seen, merged, limited, fired, main>>

\* None, for the values that are otherwise a record or wrapped in a 1-tuple.
None == <<>>

Min(a, b) == IF a <= b THEN a ELSE b
Max(a, b) == IF a >= b THEN a ELSE b

RECURSIVE Pow2(_)
Pow2(n) == IF n = 0 THEN 1 ELSE 2 * Pow2(n - 1)

\* ------------------------------------------------------------ page parser
Ids == 1..NumIds
Titles == {"a", "b"}

\* A .resultRow of a page: either it has its title, price and image tags, and
\* then the id its link carries and its text, or one of them is missing.
NoRow == [id |-> 0, title |-> "", complete |-> FALSE]

Rows == [id : Ids, title : Titles, complete : {TRUE}] \cup {NoRow}

RECURSIVE SeqsUpTo(_, _)
SeqsUpTo(S, n) ==
    IF n = 0 THEN {<<>>}
    ELSE LET shorter == SeqsUpTo(S, n - 1)
         IN  shorter \cup {Append(s, x) : s \in {t \in shorter : Len(t) = n - 1}, x \in S}

Htmls == SeqsUpTo(Rows, MaxRows)

Listing(row) == [id |-> row.id, title |-> row.title]

RECURSIVE parse_listings(_)
parse_listings(html) ==
    IF html = <<>> THEN <<>>
    ELSE LET row == Head(html)
             rest == parse_listings(Tail(html))
         IN  IF ~row.complete THEN rest ELSE <<Listing(row)>> \o rest

DictSetDefault(d, l) ==
    IF \E k \in 1..Len(d) : d[k].id = l.id THEN d ELSE Append(d, l)

DictAppend(d, l) == Append(d, l)

\* listings[listing.id] = listing, on an insertion-ordered dict.
DictPut(d, l) ==
    IF \E k \in 1..Len(d) : d[k].id = l.id
    THEN [k \in 1..Len(d) |-> IF d[k].id = l.id THEN l ELSE d[k]]
    ELSE Append(d, l)

RECURSIVE MergeListings(_, _)
MergeListings(d, ls) ==
    IF ls = <<>> THEN d ELSE MergeListings(DictPut(d, Head(ls)), Tail(ls))

MergePage(d, html) == MergeListings(d, parse_listings(html))

RECURSIVE MergePages(_, _, _)
MergePages(d, htmls, n) ==
    IF n = 0 THEN d ELSE MergePage(MergePages(d, htmls, n - 1), htmls[n])

\* The history of what the pages held: for each id, None or the title of its
\* last occurrence and whether it had occurred on a page before that one.
ListingRows(html, id) == {k \in 1..Len(html) : html[k].complete /\ html[k].id = id}

LastRow(S) == CHOOSE k \in S : \A j \in S : j <= k

Record(sn, html) ==
    [id \in Ids |->
        IF ListingRows(html, id) = {} THEN sn[id]
        ELSE [title |-> html[LastRow(ListingRows(html, id))].title,
              again |-> sn[id] # None]]

RECURSIVE RecordAll(_, _, _)
RecordAll(sn, htmls, n) ==
    IF n = 0 THEN sn ELSE Record(RecordAll(sn, htmls, n - 1), htmls[n])

\* ------------------------------------------------------------------ state
Calls == 1..(MaxPages + 1)
Pages == 1..args.pages

NewCall ==
    [pc |-> "idle",       \* idle, acquiring, requesting, ratelimited, backoff,
                          \* success, done, fatal, cancelled
     attempt |-> 0,       \* tenacity's attempt_number
     timer |-> 0,         \* time remaining of the sleep the call is in
     holding |-> FALSE,   \* the running attempt has acquired a permit
     acq |-> 0,           \* permits the call has acquired
     sched |-> 0,         \* release timers the call has scheduled
     status |-> 0,        \* status of the attempt's response (0: none)
     body |-> None,       \* <<body>> of the attempt's response
     header |-> None,     \* the Retry-After header of the attempt's response
     backoff |-> 0,       \* the wait tenacity chose after the last attempt
     since |-> 0,         \* time elapsed since the last 429 response
     waited |-> 0,        \* time the attempt has spent blocked in acquire()
     result |-> None,     \* <<text>> once the call has returned
     rank |-> 0,          \* history: the call was the rank-th to return its text
     err |-> "none"]      \* the exception the call ended with

NewMain ==
    [exc |-> "none",      \* the exception that came out of scrape
     reported |-> {},     \* the exceptions named on the console or in the traceback
     written |-> FALSE,   \* write_output has run
     exit |-> None]       \* <<status>> once the process has exited

InitCommon ==
    /\ opc = "start"
    /\ cur = 1
    /\ listings = <<>>
    /\ ret = None
    /\ session = "unopened"
    /\ available = Permits
    /\ timers = <<>>
    /\ calls = [i \in Calls |-> NewCall]
    /\ seen = [id \in Ids |-> None]
    /\ merged = {}
    /\ limited = 0
    /\ fired = FALSE
    /\ main = NewMain

\* ------------------------------------------------------------- sample path
InitSample ==
    /\ \E n \in 1..MaxPages, m \in {"batch", "crawl"} :
            args = [pages |-> n, mode |-> m, sample_dir |-> TRUE]
    /\ InitCommon

\* What one turn of the loop over the sample files does with the text html.
SampleTurn(html) ==
    /\ listings' = MergePage(listings, html)
    /\ seen' = Record(seen, html)
    /\ merged' = merged \cup {cur}
    /\ cur' = cur + 1

\* One turn of the loop over the sample files; html is what read_text gives.
SamplePage(html) ==
    /\ opc = "start"
    /\ args.sample_dir
    /\ cur <= args.pages
    /\ SampleTurn(html)
    /\ UNCHANGED <<args, opc, ret, session, available, timers, calls,
                   limited, fired, main>>

SampleReturn ==
    /\ opc = "start"
    /\ args.sample_dir
    /\ cur > args.pages
    /\ opc' = "returned"
    /\ ret' = <<listings>>
    /\ UNCHANGED <<args, cur, listings, session, available, timers, calls,
                   seen, merged, limited, fired, main>>

\* The sample path has returned: write_output, and main returns 0.
SampleWrite ==
    /\ opc = "returned"
    /\ main.exit = None
    /\ main' = [main EXCEPT !.written = TRUE, !.exit = <<0>>]
    /\ UNCHANGED <<args, opc, cur, listings, ret, session, available, timers,
                   calls, seen, merged, limited, fired>>

NextSample ==
    \/ \E html \in Htmls : SamplePage(html)
    \/ SampleReturn
    \/ SampleWrite

SpecSample == InitSample /\ [][NextSample]_vars

\* ---------------------------------------------------------- the merge step
\* The values a Dict[str, Listing] keyed by listing id can have.
Dicts ==
    {d \in SeqsUpTo([id : Ids, title : Titles], NumIds) :
        \A j, k \in 1..Len(d) : d[j].id = d[k].id => j = k}

\* The merge step on its own: a collection, and a page text held as the
\* result of call 1, which the step merges into the collection time and again.
InitMerge ==
    /\ \E n \in 1..MaxPages, m \in {"batch", "crawl"} :
            args = [pages |-> n, mode |-> m, sample_dir |-> TRUE]
    /\ opc = "start"
    /\ cur = 1
    /\ listings \in Dicts
    /\ ret = None
    /\ session = "unopened"
    /\ available = Permits
    /\ timers = <<>>
    /\ \E html \in Htmls :
            calls = [i \in Calls |->
                        IF i = 1 THEN [NewCall EXCEPT !.result = <<html>>] ELSE NewCall]
    /\ seen = [id \in Ids |-> None]
    /\ merged = {}
    /\ limited = 0
    /\ fired = FALSE
    /\ main = NewMain

\* for listing in parse_listings(html): listings[listing.id] = listing
MergeSame ==
    /\ cur <= 2
    /\ listings' = MergePage(listings, calls[1].result[1])
    /\ cur' = cur + 1
    /\ UNCHANGED <<args, opc, ret, session, available, timers, calls, seen,
                   merged, limited, fired, main>>

NextMerge == MergeSame

SpecMerge == InitMerge /\ [][NextMerge]_vars

\* ------------------------------------------------------ transport answers
\* What session.get(url) can come back with: a response (status, the
\* Retry-After header as None or <<seconds>>, body text) or a transport error.
RetryAfterHeaders == {None, <<2>>}
OkStatuses == {200}
ErrorStatuses == {404, 500}
\* The pages the server has: one listing each, the first id under either
\* title.  A 304 response carries no body.
Bodies == {h \in Htmls : Len(h) = 1 /\ h[1].complete /\ h[1].id = 1}

Responses ==
    [kind : {"response"}, status : OkStatuses, retry_after : {None}, body : Bodies]
    \cup [kind : {"response"}, status : {304}, retry_after : {None},
          body : {<<>>}]
    \cup [kind : {"response"}, status : {TooManyRequests},
          retry_after : RetryAfterHeaders, body : {<<>>}]
    \cup [kind : {"response"}, status : ErrorStatuses, retry_after : {None},
          body : {<<>>}]
    \cup [kind : {"error"}, status : {0}, retry_after : {None}, body : {<<>>}]

\* One answer of each kind, for the runs whose claims are about time and
\* permits and not about what the pages hold.
PlainResponses ==
    {r \in Responses :
        /\ r.status \notin {304, 500}
        /\ r.body = <<>> \/ (r.body[1].id = 1 /\ r.body[1].title = "a")}

RetryAfterOrZero(header) == IF header = None THEN 0 ELSE header[1]

\* int(resp.headers.get("Retry-After", "60"))
RetryAfterOf(header) == IF header = None THEN DefaultRetryAfter ELSE header[1]

\* resp.raise_for_status() raises for the statuses from 400 on.
RaisesForStatus(st) == st >= 400

\* --------------------------------------------------------- retry policy
RetryIfException(exc) == TRUE

\* retry=retry_if_exception_type(RuntimeError)
RetryIf(exc) == exc = "RuntimeError"

StopAfterSixth(n) == n >= MaxAttempts + 1

\* stop=stop_after_attempt(5)
StopAfterAttempt(n) == n >= MaxAttempts

WaitLinear(n) == Max(WaitMin, Min(WaitMultiplier * n, WaitMax))

\* wait=wait_exponential(multiplier=1, min=1, max=60), after attempt n
wait_exponential(n) ==
    Max(WaitMin, Min(WaitMultiplier * Pow2(n - 1), WaitMax))

\* ------------------------------------------------------------ rate governor
GovernedAlways(mode) == TRUE

\* if self.mode == "crawl": the semaphore is engaged
Governed(mode) == mode = "crawl"

ReleaseEarly == Cooldown - 1

\* the delay given to call_later
ReleaseDelay == Cooldown

AttemptingOnce(c, n, avail) ==
    LET fresh == [c EXCEPT !.attempt = n, !.timer = 0, !.since = 0,
                           !.status = 0, !.body = None, !.header = None,
                           !.backoff = 0,
                           !.waited = IF n = c.attempt THEN @ ELSE 0]
    IN  IF ~Governed(args.mode) \/ n > 1 THEN [fresh EXCEPT !.pc = "requesting"]
        ELSE IF avail = 0 THEN [fresh EXCEPT !.pc = "acquiring"]
        ELSE [fresh EXCEPT !.pc = "requesting", !.holding = TRUE, !.acq = @ + 1]

\* The part of c that starts attempt n: the permit is taken when there is
\* one, else the call waits in acquire().
Attempting(c, n, avail) ==
    LET fresh == [c EXCEPT !.attempt = n, !.timer = 0, !.since = 0,
                           !.status = 0, !.body = None, !.header = None,
                           !.backoff = 0,
                           !.waited = IF n = c.attempt THEN @ ELSE 0]
    IN  IF ~Governed(args.mode) THEN [fresh EXCEPT !.pc = "requesting"]
        ELSE IF avail = 0 THEN [fresh EXCEPT !.pc = "acquiring"]
        ELSE [fresh EXCEPT !.pc = "requesting", !.holding = TRUE, !.acq = @ + 1]

Taken(avail) == IF Governed(args.mode) /\ avail > 0 THEN 1 ELSE 0

\* The finally block of fetch: the release is handed to call_later.
Finally(c) ==
    IF Governed(args.mode)
    THEN [c EXCEPT !.holding = FALSE, !.sched = @ + 1]
    ELSE c

NoCallLater == timers

TimersAfterFinally ==
    IF Governed(args.mode)
    THEN Append(timers, [rem |-> ReleaseDelay, age |-> 0])
    ELSE timers

\* An attempt of c ends with exception exc: the finally block runs, then
\* tenacity decides between another attempt, RetryError and re-raising.
Raising(c, exc) ==
    LET d == Finally(c)
    IN  IF ~RetryIf(exc) THEN [d EXCEPT !.pc = "fatal", !.err = exc]
        ELSE IF StopAfterAttempt(d.attempt)
             THEN [d EXCEPT !.pc = "fatal", !.err = "RetryError"]
        ELSE [d EXCEPT !.pc = "backoff", !.timer = wait_exponential(d.attempt),
                       !.backoff = wait_exponential(d.attempt)]

\* ------------------------------------------------------------ network path
Init ==
    /\ \E n \in 1..MaxPages, m \in {"batch", "crawl"} :
            args = [pages |-> n, mode |-> m, sample_dir |-> FALSE]
    /\ InitCommon

\* async with WatchcountFetcher(args.mode) as fetcher
Enter ==
    /\ opc = "start"
    /\ ~args.sample_dir
    /\ opc' = "running"
    /\ session' = "open"
    /\ UNCHANGED <<args, cur, listings, ret, available, timers, calls, seen,
                   merged, limited, fired, main>>

StartFetchEager(i) ==
    /\ opc = "running"
    /\ i \in Pages
    /\ calls[i].pc = "idle"
    /\ \A j \in 1..(i - 1) : calls[j].pc # "idle"
    /\ calls' = [calls EXCEPT ![i] = Attempting(@, 1, available)]
    /\ available' = available - Taken(available)
    /\ UNCHANGED <<args, opc, cur, listings, ret, session, timers, seen, merged, limited, fired,
                   main>>

\* fetch(url) for page i is entered: the next turn of the crawl loop, or the
\* next of the coroutines handed to gather.
StartFetch(i) ==
    /\ opc = "running"
    /\ i \in Pages
    /\ calls[i].pc = "idle"
    /\ IF args.mode = "batch"
       THEN \A j \in 1..(i - 1) : calls[j].pc # "idle"
       ELSE i = cur
    /\ calls' = [calls EXCEPT ![i] = Attempting(@, 1, available)]
    /\ available' = available - Taken(available)
    /\ UNCHANGED <<args, opc, cur, listings, ret, session, timers, seen, merged, limited, fired,
                   main>>

\* rate_semaphore.acquire() returns to a call that waited for a permit.
Acquire(i) ==
    /\ opc = "running"
    /\ calls[i].pc = "acquiring"
    /\ available > 0
    /\ calls' = [calls EXCEPT ![i] = Attempting(@, @.attempt, available)]
    /\ available' = available - 1
    /\ UNCHANGED <<args, opc, cur, listings, ret, session, timers, seen, merged, limited, fired,
                   main>>

\* The calls that have returned their text to gather or to the crawl loop.
Returned == {j \in Pages : calls[j].pc = "success"}

\* The 429 responses the server gives in one run: those of a crawl reach one
\* call's 5 attempts; the concurrent calls of a batch share a smaller number.
RateLimitBudget ==
    IF args.mode = "batch" THEN MaxBatchRateLimited ELSE MaxRateLimited

\* session.get(url) comes back with r, and the attempt runs to its next await.
Respond(i, r) ==
    /\ opc = "running"
    /\ session = "open"
    /\ calls[i].pc = "requesting"
    /\ \A j \in Pages : calls[j].pc # "idle" \/ args.mode # "batch"
    /\ LET c == [calls[i] EXCEPT !.status = r.status,
                                 !.body = IF r.kind = "error" THEN None ELSE <<r.body>>] IN
         IF r.kind = "error"
         THEN /\ calls' = [calls EXCEPT ![i] = Raising(c, "ClientError")]
              /\ timers' = TimersAfterFinally
         ELSE IF r.status = TooManyRequests
         THEN /\ limited < RateLimitBudget
              /\ calls' = [calls EXCEPT ![i] =
                    [c EXCEPT !.pc = "ratelimited",
                              !.timer = RetryAfterOf(r.retry_after),
                              !.header = r.retry_after,
                              !.since = 0]]
              /\ timers' = timers
         ELSE IF RaisesForStatus(r.status)
         THEN /\ calls' = [calls EXCEPT ![i] = Raising(c, "ClientResponseError")]
              /\ timers' = TimersAfterFinally
         ELSE /\ calls' = [calls EXCEPT ![i] =
                    [Finally(c) EXCEPT !.pc = "success", !.result = <<r.body>>,
                                       !.rank = Cardinality(Returned) + 1]]
              /\ timers' = TimersAfterFinally
    /\ limited' = IF r.status = TooManyRequests THEN limited + 1 ELSE limited
    /\ UNCHANGED <<args, opc, cur, listings, ret, session, available, seen,
                   merged, fired, main>>

\* asyncio.sleep(retry_after) is over: raise RuntimeError("Rate limited").
SleepDone(i) ==
    /\ opc \in {"running", "leaving"}
    /\ calls[i].pc = "ratelimited"
    /\ calls[i].timer = 0
    /\ calls' = [calls EXCEPT ![i] = Raising(@, "RuntimeError")]
    /\ timers' = TimersAfterFinally
    /\ UNCHANGED <<args, opc, cur, listings, ret, session, available, seen,
                   merged, limited, fired, main>>

\* tenacity's wait is over: fetch is entered again.  On a session that has
\* been closed, session.get raises RuntimeError("Session is closed") at once.
BackoffDone(i) ==
    /\ opc \in {"running", "leaving"}
    /\ calls[i].pc = "backoff"
    /\ calls[i].timer = 0
    /\ LET c == Attempting(calls[i], calls[i].attempt + 1, available) IN
         IF session = "open" \/ c.pc = "acquiring"
         THEN /\ calls' = [calls EXCEPT ![i] = c]
              /\ timers' = timers
         ELSE /\ calls' = [calls EXCEPT ![i] = Raising(c, "RuntimeError")]
              /\ timers' = TimersAfterFinally
    /\ available' = available - Taken(available)
    /\ UNCHANGED <<args, opc, cur, listings, ret, session, seen, merged,
                   limited, fired, main>>

ReleaseTwice ==
    /\ opc = "running"
    /\ timers # <<>>
    /\ Head(timers).rem = 0
    /\ timers' = Tail(timers)
    /\ available' = available + 2
    /\ fired' = ~fired
    /\ UNCHANGED <<args, opc, cur, listings, ret, session, calls, seen, merged,
                   limited, main>>

ReleaseLost ==
    /\ opc = "running"
    /\ timers # <<>>
    /\ Head(timers).rem = 0
    /\ timers' = Tail(timers)
    /\ fired' = ~fired
    /\ UNCHANGED <<args, opc, cur, listings, ret, session, available, calls,
                   seen, merged, limited, main>>

\* A call_later timer fires: rate_semaphore.release().
Release ==
    /\ opc = "running"
    /\ timers # <<>>
    /\ Head(timers).rem = 0
    /\ timers' = Tail(timers)
    /\ available' = available + 1
    /\ fired' = ~fired
    /\ UNCHANGED <<args, opc, cur, listings, ret, session, calls, seen, merged,
                   limited, main>>

\* --------------------------------------------------------------- the clock
Sleeping(i) == calls[i].pc \in {"ratelimited", "backoff"}

Remaining ==
    {timers[k].rem : k \in 1..Len(timers)}
    \cup {calls[i].timer : i \in {j \in Pages : Sleeping(j)}}

SetMin(S) == CHOOSE x \in S : \A y \in S : x <= y

\* A step of the event loop that is ready to run without time passing.
Ready ==
    \/ opc = "start"
    \/ \E i \in Pages :
        \/ calls[i].pc = "idle" /\ (args.mode = "batch" \/ i = cur)
        \/ calls[i].pc = "acquiring" /\ available > 0
        \/ calls[i].pc = "fatal"
        \/ calls[i].pc = "success" /\ args.mode = "crawl" /\ i = cur
    \/ args.mode = "batch" /\ \A i \in Pages : calls[i].pc = "success"

\* Time passes: no step is ready, and time moves to the next pending timer.
\* A request in flight stays in flight for as long as the server likes.
Tick ==
    /\ opc = "running"
    /\ ~Ready
    /\ Remaining # {}
    /\ SetMin(Remaining) >= 1
    /\ LET d == SetMin(Remaining) IN
        /\ timers' = [k \in 1..Len(timers) |->
                        [rem |-> timers[k].rem - d, age |-> timers[k].age + d]]
        /\ calls' = [i \in Calls |->
                        IF i \in Pages /\ Sleeping(i)
                        THEN [calls[i] EXCEPT !.timer = @ - d, !.since = @ + d]
                        ELSE IF i \in Pages /\ calls[i].pc = "acquiring"
                        THEN [calls[i] EXCEPT !.waited = @ + d]
                        ELSE calls[i]]
    /\ UNCHANGED <<args, opc, cur, listings, ret, session, available, seen,
                   merged, limited, fired, main>>

\* ------------------------------------------------------------ orchestrator
RECURSIVE MergeNew(_, _)
MergeNew(d, ls) ==
    IF ls = <<>> THEN d ELSE MergeNew(DictSetDefault(d, Head(ls)), Tail(ls))

MergeCrawlKeepFirst ==
    /\ opc = "running"
    /\ args.mode # "batch"
    /\ cur <= args.pages
    /\ calls[cur].pc = "success"
    /\ LET html == calls[cur].result[1]
           after == MergeNew(listings, parse_listings(html))
       IN  /\ listings' = after
           /\ seen' = Record(seen, html)
           /\ merged' = merged \cup {cur}
           /\ cur' = cur + 1
           /\ calls' = [calls EXCEPT ![cur] = [NewCall EXCEPT !.pc = "done"]]
           /\ IF cur = args.pages
              THEN opc' = "returned" /\ session' = "closed" /\ ret' = <<after>>
              ELSE UNCHANGED <<opc, session, ret>>
    /\ UNCHANGED <<args, available, timers, limited, fired, main>>

\* Crawl: fetch(url) of page cur has returned; its listings are merged and
\* the loop goes on, or the fetcher is left and scrape returns.
MergeCrawl ==
    /\ opc = "running"
    /\ args.mode # "batch"
    /\ cur <= args.pages
    /\ calls[cur].pc = "success"
    /\ LET html == calls[cur].result[1]
           after == MergePage(listings, html)
       IN  /\ listings' = after
           /\ seen' = Record(seen, html)
           /\ merged' = merged \cup {cur}
           /\ cur' = cur + 1
           /\ calls' = [calls EXCEPT ![cur] = [NewCall EXCEPT !.pc = "done"]]
           /\ IF cur = args.pages
              THEN opc' = "returned" /\ session' = "closed" /\ ret' = <<after>>
              ELSE UNCHANGED <<opc, session, ret>>
    /\ UNCHANGED <<args, available, timers, limited, fired, main>>

GatherMergeEager ==
    /\ opc = "running"
    /\ args.mode = "batch"
    /\ \E i \in Pages : calls[i].pc = "success"
    /\ LET html_list == [i \in Pages |->
                            IF calls[i].pc = "success" THEN calls[i].result[1]
                            ELSE <<>>]
           after == MergePages(listings, html_list, args.pages)
       IN  /\ listings' = after
           /\ seen' = RecordAll(seen, html_list, args.pages)
           /\ ret' = <<after>>
    /\ merged' = Returned
    /\ opc' = "returned"
    /\ session' = "closed"
    /\ UNCHANGED <<args, cur, available, timers, calls, limited, fired, main>>

GatherMergeAsCompleted ==
    /\ opc = "running"
    /\ args.mode = "batch"
    /\ \A i \in Pages : calls[i].pc = "success"
    /\ LET html_list == [r \in Pages |->
                            calls[CHOOSE i \in Pages : calls[i].rank = r].result[1]]
           after == MergePages(listings, html_list, args.pages)
       IN  /\ listings' = after
           /\ seen' = RecordAll(seen, html_list, args.pages)
           /\ ret' = <<after>>
    /\ merged' = Pages
    /\ opc' = "returned"
    /\ session' = "closed"
    /\ UNCHANGED <<args, cur, available, timers, calls, limited, fired, main>>

\* Batch: gather has all the texts, in the order of the urls; they are
\* merged in that order, the fetcher is left and scrape returns.
GatherMerge ==
    /\ opc = "running"
    /\ args.mode = "batch"
    /\ \A i \in Pages : calls[i].pc = "success"
    /\ LET html_list == [i \in Pages |-> calls[i].result[1]]
           after == MergePages(listings, html_list, args.pages)
       IN  /\ listings' = after
           /\ seen' = RecordAll(seen, html_list, args.pages)
           /\ ret' = <<after>>
    /\ merged' = Pages
    /\ opc' = "returned"
    /\ session' = "closed"
    /\ UNCHANGED <<args, cur, available, timers, calls, limited, fired, main>>

\* A task that asyncio.run cancels when main is over.
Cancelled(c) ==
    IF c.pc \in {"requesting", "ratelimited"}
    THEN [Finally(c) EXCEPT !.pc = "cancelled"]
    ELSE IF c.pc \in {"acquiring", "backoff"} THEN [c EXCEPT !.pc = "cancelled"]
    ELSE c

RaiseSwallowed(i) ==
    /\ opc = "leaving"
    /\ i \in Pages
    /\ calls[i].pc = "fatal"
    /\ calls[i].err = main.exc
    /\ opc' = "returned"
    /\ ret' = <<listings>>
    /\ session' = "closed"
    /\ calls' = [j \in Calls |-> Cancelled(calls[j])]
    /\ UNCHANGED <<args, cur, listings, available, timers, seen, merged, limited, fired,
                   main>>

\* fetch(url) of page i raised: the exception leaves the loop or gather and
\* enters __aexit__, which awaits session.close().  The other fetches of a
\* batch are tasks of their own: they go on while scrape is suspended there.
Leave(i) ==
    /\ opc = "running"
    /\ i \in Pages
    /\ calls[i].pc = "fatal"
    /\ opc' = "leaving"
    /\ session' = "closed"
    /\ main' = [main EXCEPT !.exc = calls[i].err]
    /\ UNCHANGED <<args, cur, listings, ret, available, timers, calls, seen,
                   merged, limited, fired>>

\* session.close() is over: the exception of page i leaves scrape, and the
\* tasks that remain are cancelled when asyncio.run closes the loop.
Raise(i) ==
    /\ opc = "leaving"
    /\ i \in Pages
    /\ calls[i].pc = "fatal"
    /\ calls[i].err = main.exc
    /\ opc' = "raised"
    /\ calls' = [j \in Calls |-> Cancelled(calls[j])]
    /\ UNCHANGED <<args, cur, listings, ret, session, available, timers, seen,
                   merged, limited, fired, main>>

\* -------------------------------------------------------------------- main
\* except (aiohttp.ClientError, RuntimeError)
Catches(exc) == exc \in {"ClientError", "ClientResponseError", "RuntimeError"}

\* The exceptions a traceback names: the exception and its chain of causes.
\* tenacity raises RetryError from the exception of the last attempt.
Chain(exc) == IF exc = "RetryError" THEN {"RetryError", "RuntimeError"} ELSE {exc}

MainExceptThenWrite ==
    /\ opc = "raised"
    /\ main.exit = None
    /\ main' = [main EXCEPT !.reported = {main.exc}, !.written = TRUE,
                            !.exit = <<0>>]
    /\ UNCHANGED <<args, opc, cur, listings, ret, session, available, timers,
                   calls, seen, merged, limited, fired>>

\* scrape raised: the except clause prints the error and main returns 1, or
\* the exception is not one it names, leaves asyncio.run, and the interpreter
\* prints the traceback and exits with status 1.
MainExcept ==
    /\ opc = "raised"
    /\ main.exit = None
    /\ main' = [main EXCEPT
                    !.reported = IF Catches(main.exc) THEN {main.exc}
                                 ELSE Chain(main.exc),
                    !.exit = <<1>>]
    /\ UNCHANGED <<args, opc, cur, listings, ret, session, available, timers,
                   calls, seen, merged, limited, fired>>

\* scrape returned: write_output(listings, args.output), and main returns 0.
MainWrite ==
    /\ opc = "returned"
    /\ main.exit = None
    /\ main' = [main EXCEPT !.written = TRUE, !.exit = <<0>>]
    /\ UNCHANGED <<args, opc, cur, listings, ret, session, available, timers,
                   calls, seen, merged, limited, fired>>

Next ==
    \/ Enter
    \/ \E i \in Pages : StartFetch(i)
    \/ \E i \in Pages : Acquire(i)
    \/ \E i \in Pages, r \in Responses : Respond(i, r)
    \/ \E i \in Pages : SleepDone(i)
    \/ \E i \in Pages : BackoffDone(i)
    \/ Release
    \/ Tick
    \/ MergeCrawl
    \/ GatherMerge
    \/ \E i \in Pages : Leave(i)
    \/ \E i \in Pages : Raise(i)
    \/ MainExcept
    \/ MainWrite

Spec == Init /\ [][Next]_vars

\* The event loop runs every callback that is ready and fires every timer
\* that is due; when a response arrives is up to the server.
LoopStep ==
    \/ Enter
    \/ \E i \in Pages : StartFetch(i)
    \/ \E i \in Pages : Acquire(i)
    \/ \E i \in Pages : SleepDone(i)
    \/ \E i \in Pages : BackoffDone(i)
    \/ Release
    \/ Tick
    \/ MergeCrawl
    \/ GatherMerge
    \/ \E i \in Pages : Leave(i)
    \/ \E i \in Pages : Raise(i)
    \/ MainExcept
    \/ MainWrite

\* The runs of crawl mode, under a fair event loop.
InitCrawl ==
    /\ \E n \in 1..MaxPages :
            args = [pages |-> n, mode |-> "crawl", sample_dir |-> FALSE]
    /\ InitCommon

NextCrawl ==
    \/ Enter
    \/ \E i \in Pages : StartFetch(i)
    \/ \E i \in Pages : Acquire(i)
    \/ \E i \in Pages, r \in PlainResponses : Respond(i, r)
    \/ \E i \in Pages : SleepDone(i)
    \/ \E i \in Pages : BackoffDone(i)
    \/ Release
    \/ Tick
    \/ MergeCrawl
    \/ \E i \in Pages : Leave(i)
    \/ \E i \in Pages : Raise(i)
    \/ MainExcept
    \/ MainWrite

LiveSpec == InitCrawl /\ [][NextCrawl]_vars /\ WF_vars(LoopStep)

\* Both modes, under a fair event loop and a server that answers: as long as
\* a step of the loop is ready, a timer is pending or a request is in flight,
\* one of them happens.
NextPlain ==
    \/ Enter
    \/ \E i \in Pages : StartFetch(i)
    \/ \E i \in Pages : Acquire(i)
    \/ \E i \in Pages, r \in PlainResponses : Respond(i, r)
    \/ \E i \in Pages : SleepDone(i)
    \/ \E i \in Pages : BackoffDone(i)
    \/ Release
    \/ Tick
    \/ MergeCrawl
    \/ GatherMerge
    \/ \E i \in Pages : Leave(i)
    \/ \E i \in Pages : Raise(i)
    \/ MainExcept
    \/ MainWrite

FairSpec == Init /\ [][NextPlain]_vars /\ WF_vars(NextPlain)

\* ------------------------------------------------------------------ claims
Live(i) == i \in Pages /\ calls[i].pc \notin {"idle", "done"}

\* C1: a fetch call makes at most 5 attempts; a success response to the 5th
\* attempt is returned as the call's text; after a 5th rate-limit response the
\* call ends in a fatal error (tenacity's RetryError) and no further attempt
\* is made.
C1_AtMostFiveAttempts ==
    \A i \in Pages :
        LET c == calls[i] IN
        /\ c.attempt <= 5
        /\ (c.attempt = 5 /\ c.status = 200) =>
                (c.pc = "success" /\ c.result = c.body)
        /\ (c.attempt = 5 /\ c.status = 429) =>
                /\ c.pc \in {"ratelimited", "fatal", "cancelled"}
                /\ c.pc = "fatal" => c.err = "RetryError"

C1_Witness ==
    \E i \in Pages :
        calls[i].attempt = 5 /\ calls[i].status = 429 /\ calls[i].pc = "fatal"

C1_WitnessFifthSucceeds ==
    \E i \in Pages :
        calls[i].attempt = 5 /\ calls[i].status = 200 /\ calls[i].pc = "success"

\* C2: a permit is taken only when one is available, so with all 3 taken the
\* next acquire waits; and the pool grows only by the release of a timer that
\* has been pending for at least 60 time-units since the attempt that held
\* the permit finished.
C2_CooldownBeforeReuse ==
    [][/\ available' > available =>
            /\ timers # <<>>
            /\ Head(timers).age >= 60
            /\ timers' = Tail(timers)
            /\ available' = available + 1
       /\ \A i \in Pages :
            calls'[i].acq > calls[i].acq =>
                (available > 0 /\ available' = available - 1)
       /\ \A i \in Pages :
            (calls'[i].pc = "acquiring" /\ calls[i].pc # "acquiring") =>
                (available = 0 /\ available' = 0)]_vars

\* A call that found no permit, at the moment the oldest cooldown has elapsed.
C2_Witness ==
    \E i \in Pages :
        /\ calls[i].pc = "acquiring"
        /\ available = 1
        /\ Len(timers) = 2

\* C3 as stated: a call that has got past acquire() holds or has held exactly
\* one permit, however many attempts it has made.
C3_OnePermitPerCall ==
    args.mode = "crawl" =>
        \A i \in Pages :
            calls[i].pc \in {"requesting", "ratelimited", "backoff", "success", "fatal"}
                => calls[i].acq = 1

\* C3 amended: in crawl mode every attempt of a call acquires its own permit:
\* a call in its n-th attempt has acquired n permits (n - 1 while that
\* attempt still waits in acquire), up to 5 for one call.
C3_OnePermitPerAttempt ==
    args.mode = "crawl" =>
        \A i \in Pages :
            Live(i) =>
                /\ calls[i].acq =
                        IF calls[i].pc = "acquiring" THEN calls[i].attempt - 1
                        ELSE calls[i].attempt
                /\ calls[i].acq <= 5

C3_Witness ==
    /\ args.mode = "crawl"
    /\ \E i \in Pages : calls[i].attempt = 5 /\ calls[i].acq = 5

\* C4: on the sample path, after the pages 1..n have been processed in that
\* order the collection holds exactly one entry per listing id that occurred on
\* them (its size is the number of distinct ids), each with the field values
\* of the last page that held the id; this is the collection returned.
Occurred == {id \in Ids : seen[id] # None}

C4_OneEntryPerIdLastPageWins ==
    /\ merged = 1..(cur - 1)
    /\ \A j, k \in 1..Len(listings) : listings[j].id = listings[k].id => j = k
    /\ {listings[k].id : k \in 1..Len(listings)} = Occurred
    /\ Len(listings) = Cardinality(Occurred)
    /\ \A k \in 1..Len(listings) : listings[k].title = seen[listings[k].id].title
    /\ opc = "returned" => (ret = <<listings>> /\ merged = 1..args.pages)

\* Two pages that share an id, in a returned collection of two listings.
C4_Witness ==
    /\ opc = "returned"
    /\ args.pages = 2
    /\ Len(ret[1]) = 2
    /\ \E id \in Ids : seen[id] # None /\ seen[id].again

\* C5: scrape returns only a collection into which every requested page has
\* been merged; when a fetch has ended in a fatal error nothing is returned,
\* not even the listings of the pages merged before it.
C5_CompleteOrNothing ==
    /\ ret # None => opc = "returned"
    /\ opc = "returned" =>
            /\ ret = <<listings>>
            /\ merged = Pages
            /\ \A i \in Pages : calls[i].pc \in {"success", "done"}
    /\ opc = "raised" => ret = None
    /\ (\E i \in Pages : calls[i].pc = "fatal") => (ret = None /\ opc # "returned")

\* A crawl that raised after it had merged listings of an earlier page.
C5_Witness ==
    /\ opc = "raised"
    /\ merged # {}
    /\ listings # <<>>
    /\ ret = None

C7_Wait(c) == IF c.header = None THEN 60 ELSE c.header[1]

C7_ServerWaitThenBackoff ==
    [][\A i \in Pages :
        /\ (calls'[i].pc = "backoff" /\ calls[i].pc # "backoff")
           => /\ calls[i].pc = "ratelimited"
              /\ calls[i].since >= C7_Wait(calls[i])
        /\ (calls'[i].attempt = calls[i].attempt + 1 /\ calls[i].attempt >= 1)
           => /\ calls[i].status = 429
              /\ calls[i].backoff >= 1
              /\ calls[i].since >= C7_Wait(calls[i]) + calls[i].backoff]_vars

\* The next attempt is due after Retry-After: 2 and the first backoff wait.
C7_Witness ==
    \E i \in Pages :
        /\ calls[i].pc = "backoff"
        /\ calls[i].timer = 0
        /\ calls[i].header = <<2>>
        /\ calls[i].since = 2 + calls[i].backoff

\* C8: the pool conserves its 3 permits: the permits available, those held by
\* a running attempt and those waiting on a release timer add up to 3, the
\* available count stays within 0..3, and every permit a call has acquired
\* is held by its running attempt or has had exactly one release scheduled.
Holders == {i \in Pages : calls[i].holding}

C8_PermitsConserved ==
    /\ available \in 0..3
    /\ available + Cardinality(Holders) + Len(timers) = 3
    /\ \A i \in Pages :
        Live(i) =>
            calls[i].acq = calls[i].sched + (IF calls[i].holding THEN 1 ELSE 0)

\* All 3 permits out: one held by a running attempt, two cooling down.
C8_Witness ==
    /\ available = 0
    /\ Cardinality(Holders) = 1
    /\ Len(timers) = 2

\* C9: in crawl mode the attempt that took a permit hands its release to a
\* 60-unit timer when it ends, whatever its outcome; and while the run goes
\* on, a pending release timer is always followed by a release.
C9_ReleaseAlwaysScheduled ==
    /\ [][\A i \in Pages :
            (calls[i].holding /\ ~calls'[i].holding) =>
                /\ timers' = Append(timers, [rem |-> 60, age |-> 0])
                /\ calls'[i].sched = calls[i].sched + 1]_vars
    /\ \A b \in BOOLEAN :
            (opc = "running" /\ timers # <<>> /\ fired = b)
                ~> (opc # "running" \/ fired # b)

\* A crawl call that was rate-limited, retried and then failed for good: each
\* of its 4 permits has its release scheduled, and a release has fired.
C9_Witness ==
    /\ args.mode = "crawl"
    /\ fired
    /\ \E i \in Pages :
        /\ calls[i].pc = "fatal"
        /\ calls[i].err # "RetryError"
        /\ calls[i].acq = 4
        /\ calls[i].sched = 4

\* C10: in batch mode the semaphore is never touched: no permit is taken, no
\* release timer exists, 3 permits stay available and no call waits in
\* acquire(), whatever the responses are.
C10_BatchUngoverned ==
    args.mode = "batch" =>
        /\ available = 3
        /\ timers = <<>>
        /\ ~fired
        /\ \A i \in Pages :
            /\ calls[i].acq = 0
            /\ calls[i].sched = 0
            /\ ~calls[i].holding
            /\ calls[i].pc # "acquiring"

\* Every page of a batch run has its request in flight at the same time, one
\* of them after rate-limited attempts.
C10_Witness ==
    /\ args.mode = "batch"
    /\ args.pages = 2
    /\ \A i \in Pages : calls[i].pc = "requesting"
    /\ \E i \in Pages : calls[i].attempt >= 4

\* C11: in crawl mode the fetches are issued one after another in page order:
\* while the call of page cur runs, every earlier page has returned its text
\* and been merged, no later page has started or acquired a permit, and at
\* most one request is in flight.
InFlight == {i \in Pages : calls[i].pc = "requesting"}

C11_CrawlSequential ==
    args.mode = "crawl" =>
        /\ \A i \in Pages : i < cur => (calls[i].pc = "done" /\ i \in merged)
        /\ \A i \in Pages : i > cur => calls[i] = NewCall
        /\ \A i \in Pages : Live(i) => i = cur
        /\ Cardinality(InFlight) <= 1

\* The request of page 2 is in flight, after retries, once page 1 is merged.
C11_Witness ==
    /\ args.mode = "crawl"
    /\ cur = 2
    /\ calls[1].pc = "done"
    /\ calls[2].pc = "requesting"
    /\ calls[2].attempt >= 2

\* The pages of a batch run whose text holds a listing with this id, and the
\* title that page i gives it.
PagesWith(id) == {i \in Pages : ListingRows(calls[i].result[1], id) # {}}

TitleOn(i, id) ==
    LET html == calls[i].result[1]
    IN  html[LastRow(ListingRows(html, id))].title

\* C12 as stated: in batch mode the entry kept for an id is the one of the
\* page whose fetch completed last among the pages that hold the id.
C12_CompletionOrderWins ==
    (args.mode = "batch" /\ opc = "returned") =>
        \A k \in 1..Len(ret[1]) :
            LET id == ret[1][k].id
                latest == CHOOSE i \in PagesWith(id) :
                            \A j \in PagesWith(id) : calls[j].rank <= calls[i].rank
            IN  ret[1][k].title = TitleOn(latest, id)

\* C12 amended: in batch mode the entry kept for an id is the one of the page
\* with the highest page index among the pages that hold the id, in whatever
\* order the fetches completed; every id held by a page has one entry.
C12_PageOrderWins ==
    (args.mode = "batch" /\ opc = "returned") =>
        /\ \A k \in 1..Len(ret[1]) :
            LET id == ret[1][k].id
            IN  /\ PagesWith(id) # {}
                /\ ret[1][k].title = TitleOn(LastRow(PagesWith(id)), id)
        /\ \A id \in Ids :
            PagesWith(id) # {} =>
                Cardinality({k \in 1..Len(ret[1]) : ret[1][k].id = id}) = 1

\* Page 2 completed first and page 1 last, with different titles for the id
\* they share.
C12_Witness ==
    /\ args.mode = "batch"
    /\ opc = "returned"
    /\ args.pages = 2
    /\ calls[1].rank = 2
    /\ calls[2].rank = 1
    /\ \E id \in Ids :
        /\ PagesWith(id) = {1, 2}
        /\ TitleOn(1, id) # TitleOn(2, id)

\* C13: the crawl path merges as the sample path does: every step in which
\* a crawl run merges a page is a turn of the sample loop on the text that
\* page's call returned, the pages are taken in the same order, and what is
\* returned is the collection so built: one entry per id the texts held, with
\* the field values of the last page holding it.
C13_CrawlAsSample ==
    /\ [][(args.mode = "crawl" /\ (listings' # listings \/ merged' # merged)) =>
            /\ cur \in Pages
            /\ calls[cur].pc = "success"
            /\ calls[cur].status \in {200, 304}
            /\ calls[cur].result = calls[cur].body
            /\ SampleTurn(calls[cur].result[1])]_vars
    /\ []((args.mode = "crawl" /\ opc = "returned") =>
            /\ ret = <<listings>>
            /\ merged = Pages
            /\ cur = args.pages + 1
            /\ {ret[1][k].id : k \in 1..Len(ret[1])} = Occurred
            /\ Len(ret[1]) = Cardinality(Occurred)
            /\ \A k \in 1..Len(ret[1]) :
                    ret[1][k].title = seen[ret[1][k].id].title)

\* A crawl of two pages that share an id, the second page fetched after a
\* rate-limited attempt.
C13_Witness ==
    /\ args.mode = "crawl"
    /\ opc = "returned"
    /\ args.pages = 2
    /\ limited >= 1
    /\ Len(ret[1]) = 1
    /\ \E id \in Ids : seen[id] # None /\ seen[id].again

\* C14: merging is idempotent: once a page's parsed listings have been merged
\* into a collection, merging the same page again leaves the collection as it
\* is, with the same size and the same entries.
C14_MergeIdempotent ==
    [][cur = 2 =>
        /\ listings' = listings
        /\ Len(listings') = Len(listings)]_vars

\* A page with two rows of one id under different titles, merged twice into a
\* collection that held the id already.
C14_Witness ==
    /\ cur = 3
    /\ LET html == calls[1].result[1]
       IN  /\ Len(html) = 2
           /\ html[1].complete /\ html[2].complete
           /\ html[1].id = html[2].id
           /\ html[1].title # html[2].title
    /\ Len(listings) = 2

\* C15: whenever a fetch call ends in a fatal error (a status that
\* raise_for_status rejects, a transport error, or the 5th rate-limited
\* attempt), write_output never runs, and the process exits with a non-zero
\* status after reporting the error of the failed attempt.
Underlying(exc) == IF exc = "RetryError" THEN "RuntimeError" ELSE exc

C15_FatalFailureNoOutput ==
    /\ (\E i \in Pages : calls[i].pc = "fatal") => ~main.written
    /\ opc = "raised" =>
            /\ ~main.written
            /\ main.exc \in {"ClientError", "ClientResponseError", "RetryError"}
            /\ main.exit # None =>
                    /\ main.exit[1] # 0
                    /\ Underlying(main.exc) \in main.reported
    /\ main.written => (opc = "returned" /\ main.exit = <<0>>)

\* The process has exited after the 5th rate-limited attempt of a call.
C15_Witness ==
    /\ opc = "raised"
    /\ main.exc = "RetryError"
    /\ main.exit = <<1>>
    /\ \E i \in Pages : calls[i].attempt = 5 /\ calls[i].err = "RetryError"

\* C16: the first attempt of a call starts without a wait; the wait between
\* attempt k and attempt k + 1 is 1, 2, 4 and 8 time-units for k = 1..4
\* (doubling, from multiplier 1), within 1..60 and never shorter than the
\* wait before it, and the next attempt starts only when it has elapsed.
C16_Waits == <<1, 2, 4, 8>>

C16_ExponentialBackoff ==
    /\ [](\A i \in Pages :
            calls[i].pc = "backoff" =>
                /\ calls[i].attempt \in 1..4
                /\ calls[i].backoff = C16_Waits[calls[i].attempt]
                /\ calls[i].backoff >= 1
                /\ calls[i].backoff <= 60
                /\ calls[i].attempt > 1 =>
                        calls[i].backoff >= C16_Waits[calls[i].attempt - 1]
                /\ calls[i].timer \in 0..calls[i].backoff)
    /\ [][\A i \in Pages :
            /\ (calls[i].attempt = 0 /\ calls'[i].attempt = 1) =>
                    (calls[i].pc = "idle" /\ calls[i].timer = 0)
            /\ (calls[i].attempt >= 1 /\ calls'[i].attempt = calls[i].attempt + 1) =>
                    (calls[i].pc = "backoff" /\ calls[i].timer = 0)
            /\ (calls[i].pc # "backoff" /\ calls'[i].pc = "backoff") =>
                    calls'[i].timer = calls'[i].backoff]_vars

\* The wait after the 4th attempt has run its 8 time-units.
C16_Witness ==
    \E i \in Pages :
        /\ calls[i].pc = "backoff"
        /\ calls[i].attempt = 4
        /\ calls[i].backoff = 8
        /\ calls[i].timer = 0

\* The call of page i has been entered and has not come to an end.
Pending(i) ==
    i \in Pages /\ calls[i].pc \in {"acquiring", "requesting", "ratelimited", "backoff"}

\* C17 as stated: every fetch call that has been entered eventually returns
\* its text or ends in a fatal error, in both modes; so when the process has
\* exited, every call that was entered has done one or the other.
C17_EveryCallTerminates ==
    main.exit # None =>
        \A i \in Pages :
            calls[i].pc # "idle" => calls[i].pc \in {"success", "done", "fatal"}

\* C17 amended: every fetch call that has been entered eventually comes to an
\* end: it returns its text or ends in a fatal error, or it is cancelled with
\* the run when another call of the batch has ended in a fatal error.  Only
\* crawl calls wait in acquire() and they are never cancelled, so a call
\* blocked there is eventually granted its permit.
C17_TerminatesOrCancelled ==
    /\ <>[](\A i \in Pages : ~Pending(i))
    /\ [](\A i \in Pages :
            /\ calls[i].pc = "acquiring" => (args.mode = "crawl" /\ opc = "running")
            /\ calls[i].pc = "cancelled" =>
                    /\ args.mode = "batch"
                    /\ opc = "raised"
                    /\ \E j \in Pages : j # i /\ calls[j].pc = "fatal")

\* A crawl call whose 4th attempt had to wait in acquire() for the permits its
\* own first three attempts had taken, and has been granted one.
C17_Witness ==
    /\ args.mode = "crawl"
    /\ \E i \in Pages :
        /\ calls[i].pc = "requesting"
        /\ calls[i].attempt = 4
        /\ calls[i].waited > 0
        /\ calls[i].acq = 4

\* C18: the collection changes only in the orchestrator's merge step, which
\* inserts the listings of whole pages whose call has returned its text: in
\* crawl mode those of the current page, in batch mode those of every page,
\* page after page in one step; and no call is in acquire(), in a request or
\* in a wait while a merge happens.
C18_SingleWriterMerge ==
    [][(listings' # listings \/ merged' # merged) =>
        /\ opc = "running"
        /\ \A i \in Pages : ~Pending(i)
        /\ calls' = calls \/ args.mode = "crawl"
        /\ IF args.mode = "batch"
           THEN /\ \A i \in Pages : calls[i].pc = "success"
                /\ merged = {}
                /\ merged' = Pages
                /\ listings' =
                        MergePages(listings, [i \in Pages |-> calls[i].result[1]],
                                   args.pages)
           ELSE /\ calls[cur].pc = "success"
                /\ merged' = merged \cup {cur}
                /\ \A i \in Pages : i # cur => calls'[i] = calls[i]
                /\ listings' = MergePage(listings, calls[cur].result[1])]_vars

\* A batch of two pages with different ids, merged after a retried fetch.
C18_Witness ==
    /\ args.mode = "batch"
    /\ opc = "returned"
    /\ merged = {1, 2}
    /\ listings # <<>>
    /\ \E i \in Pages : calls[i].attempt >= 2

\* C19: the session is opened before the first attempt and is closed once
\* scrape has returned or raised, and an attempt of a fetch call starts only
\* while the session is open.
C19_SessionScoped ==
    /\ [](session = "unopened" => \A i \in Pages : calls[i].attempt = 0)
    /\ [](opc \in {"returned", "raised"} => session = "closed")
    /\ [][\A i \in Pages :
            calls'[i].attempt > calls[i].attempt => session = "open"]_vars

\* The part of C19 that the code keeps: the session is open from the entry of
\* the fetcher to its exit and closed from then on, on both exit paths, and
\* the first attempt of every call starts on the open session.
C19_ClosedOnEveryExit ==
    /\ [](session = "unopened" <=> opc = "start")
    /\ [](session = "open" <=> opc = "running")
    /\ [](session = "closed" <=> opc \in {"leaving", "returned", "raised"})
    /\ [][\A i \in Pages :
            (calls[i].attempt = 0 /\ calls'[i].attempt = 1) => session = "open"]_vars

\* C20: in crawl mode an attempt that got a 429 response keeps its permit
\* through the server wait R: no release is scheduled for it while it sleeps.
\* Its release timer is set when the sleep is over, so the permit comes back
\* exactly R + 60 time-units after the response, never earlier, and it is still
\* out of the pool when the next attempt of the call asks for a permit.
LastTimer == timers[Len(timers)]

C20_PermitHeldThroughWait ==
    /\ [](args.mode = "crawl" =>
            \A i \in Pages :
                /\ calls[i].pc = "ratelimited" =>
                        /\ calls[i].holding
                        /\ calls[i].sched = calls[i].acq - 1
                        /\ calls[i].since + calls[i].timer = C7_Wait(calls[i])
                /\ (calls[i].pc = "backoff" /\ calls[i].status = 429) =>
                        /\ timers # <<>>
                        /\ LastTimer.rem + calls[i].since = C7_Wait(calls[i]) + 60
                        /\ LastTimer.rem >= 60 - calls[i].backoff
                        /\ LastTimer.rem > 0)
    /\ [][args.mode = "crawl" =>
            /\ \A i \in Pages :
                (calls[i].attempt >= 1 /\ calls'[i].attempt = calls[i].attempt + 1) =>
                    /\ LastTimer.rem = 60 - calls[i].backoff
                    /\ LastTimer.rem > 0
                    /\ timers' = timers
                    /\ available' <= available
            /\ Len(timers') < Len(timers) =>
                    (Head(timers).rem = 0 /\ Head(timers).age >= 60)]_vars

\* The second attempt of a crawl call asks for a permit 1 unit after the
\* sleep of Retry-After: 2, with the first attempt's permit due in 59.
C20_Witness ==
    /\ args.mode = "crawl"
    /\ \E i \in Pages :
        /\ calls[i].pc = "requesting"
        /\ calls[i].attempt = 2
        /\ calls[i].acq = 2
        /\ timers # <<>>
        /\ LastTimer.rem = 59
        /\ available = 1

====
